---- MODULE Spec2Model ----
(***************************************************************************)
(* A model of deliveroo/jsonrpc-go: the Handler (engine), its tree of      *)
(* Groups with middleware, the method registry, and one HTTP exchange      *)
(* served by Handler.ServeHTTP.                                            *)
(*                                                                         *)
(* Go values are modelled as records with a fixed set of fields, so that   *)
(* any two of them can be compared.  A nil interface value is the string   *)
(* "nil" where the value is an opaque payload, and a record of kind "nil"  *)
(* where the value is an error.                                            *)
(***************************************************************************)
EXTENDS Integers, Sequences, FiniteSets, TLC

\* Bounds of the model.
MaxGroups == 3      \* groups of the tree, the root included
MaxLayers == 2      \* middleware layers handed to Use, over the whole tree
MaxBatch == 2       \* request records in one array body
MaxOffset == 1      \* offset of a decode fault in its input
MaxPtr == 2         \* pointer indirections in front of a type decoded into

VARIABLES
    parent,      \* Group.parent of every group created so far; 0 is nil; 1 is h.root
    middleware,  \* Group.middleware of every group created so far
    methods,     \* Handler.methods: name -> method
    owner,       \* history: the group each method was registered through
    DumpErrors,  \* Handler.DumpErrors
    sharedDump,  \* the dumpErrors field of the package-level *RPCError errShared
    lastOp,      \* the last call made on the engine and its panic
    body,        \* the body of the request of the last exchange
    w,           \* what ServeHTTP wrote to the http.ResponseWriter
    fault,       \* the panic that escaped ServeHTTP, "" when none did
    events,      \* what the layers and handlers observed during the last exchange
    decodeErr,   \* the decode fault handed to jsonErrorDetails
    reported     \* what jsonErrorDetails returned for it; <<>> before the call

vars == <<parent, middleware, methods, owner, DumpErrors, sharedDump, lastOp,
          body, w, fault, events, decodeErr, reported>>

buildVars == <<parent, middleware, methods, owner>>
exchangeVars == <<body, w, fault, events>>
reportVars == <<decodeErr, reported>>

-----------------------------------------------------------------------------
(* Errors (errors.go)                                                      *)

\* A nil error.
NilError ==
    [kind |-> "nil", Name |-> "", Message |-> "", data |-> "nil",
     wrapped |-> "nil", ref |-> "fresh", dumpErrors |-> FALSE]

\* errors.New(text): an error that is not an *RPCError.
PlainError(text) ==
    [kind |-> "plain", Name |-> "", Message |-> text, data |-> "nil",
     wrapped |-> "nil", ref |-> "fresh", dumpErrors |-> FALSE]

\* The text of an error as fmt.Sprintf("%+v", err) and err.Error() render it.
ErrorText(err) ==
    IF err.kind = "plain" THEN err.Message
    ELSE "jsonrpc: " \o err.Name \o ": " \o err.Message

\* Error(name, message): a newly allocated *RPCError.
Error(name, message) ==
    [kind |-> "rpc", Name |-> name, Message |-> message, data |-> "nil",
     wrapped |-> "nil", ref |-> "fresh", dumpErrors |-> FALSE]

\* (*RPCError).Wrap and (*RPCError).Data
Wrap(e, cause) == [e EXCEPT !.wrapped = cause]
Data(e, data) == [e EXCEPT !.data = data]

InternalError(causeText) == Wrap(Error("internal_error", "internal error"), causeText)
InvalidRequest(msg) == Error("invalid_request", msg)
\* Mutant of MethodNotFound: the message does not name the method.
MethodNotFoundUnnamed(method) == Error("method_not_found", "method not found")
MethodNotFound(method) == Error("method_not_found", "method not found: " \o method)

\* A reflect.Type: its kind, the package path and the name of a defined type
\* ("" for an unnamed one), and the number of pointer indirections in front
\* of it (*T has one, **T two).
GoType(kind, pkg, name, ptr) ==
    [Kind |-> kind, PkgPath |-> pkg, Name |-> name, Ptr |-> ptr]

\* t.Kind(), t.PkgPath() and t.Elem() of reflect: a pointer type has kind Ptr
\* and no package path, and its element has one indirection less.
Kind(t) == IF t.Ptr > 0 THEN "Ptr" ELSE t.Kind
PkgPath(t) == IF t.Ptr > 0 THEN "" ELSE t.PkgPath
Elem(t) == [t EXCEPT !.Ptr = @ - 1]

typeTimeTime == GoType("Struct", "time", "Time", 0)
typeTimeDuration == GoType("Int64", "time", "Duration", 0)

\* Mutant of jsonType: the package path of the type is not looked at, so a
\* defined type reads as the primitive under it.
RECURSIVE jsonTypeByKind(_)
jsonTypeByKind(t) ==
    IF Kind(t) = "Ptr" THEN jsonTypeByKind(Elem(t))
    ELSE IF Kind(t) = "Bool" THEN "boolean"
    ELSE IF Kind(t) \in {"Int", "Int8", "Int16", "Int32", "Int64",
                         "Uint", "Uint8", "Uint16", "Uint32", "Uint64"}
    THEN "integer"
    ELSE IF Kind(t) \in {"Float32", "Float64", "Complex64", "Complex128"}
    THEN "number"
    ELSE IF Kind(t) = "String" THEN "string"
    ELSE IF t = typeTimeTime THEN "time"
    ELSE IF t = typeTimeDuration THEN "duration"
    ELSE IF Kind(t) \in {"Struct", "Map"} THEN "object"
    ELSE IF Kind(t) \in {"Array", "Slice"} THEN "array"
    ELSE ""

\* jsonType: the JSON name of a Go type, "" when it has none.
RECURSIVE jsonType(_)
jsonType(t) ==
    IF Kind(t) = "Ptr" THEN jsonType(Elem(t))
    ELSE IF PkgPath(t) = "" /\ Kind(t) = "Bool" THEN "boolean"
    ELSE IF PkgPath(t) = ""
            /\ Kind(t) \in {"Int", "Int8", "Int16", "Int32", "Int64",
                             "Uint", "Uint8", "Uint16", "Uint32", "Uint64"}
    THEN "integer"
    ELSE IF PkgPath(t) = ""
            /\ Kind(t) \in {"Float32", "Float64", "Complex64", "Complex128"}
    THEN "number"
    ELSE IF PkgPath(t) = "" /\ Kind(t) = "String" THEN "string"
    ELSE IF t = typeTimeTime THEN "time"
    ELSE IF t = typeTimeDuration THEN "duration"
    ELSE IF Kind(t) \in {"Struct", "Map"} THEN "object"
    ELSE IF Kind(t) \in {"Array", "Slice"} THEN "array"
    ELSE ""

\* fmt's %d of an offset and %q of a field name.
Itoa(n) == ToString(n)
Quote(s) == "\"" \o s \o "\""

\* jsonErrorDetails: the sanitized text of a decode fault.  A decode fault is
\* a record [type, Offset, text, Value, Field, Type]; text is what its Error
\* method returns, and Type is the Go type that was decoded into.
jsonErrorDetails(err) ==
    IF err.type = "SyntaxError"
    THEN "offset " \o Itoa(err.Offset) \o ": " \o err.text
    ELSE IF err.type = "UnmarshalTypeError"
    THEN LET fieldText == IF err.Field # "" THEN " to " \o Quote(err.Field) ELSE ""
             t == jsonType(err.Type)
             typeText == IF t # "" THEN " as " \o t ELSE ""
         IN  "offset " \o Itoa(err.Offset) \o ": cannot unmarshal " \o err.Value
             \o fieldText \o typeText
    ELSE ""

ParseError(err, msg) ==
    LET details == jsonErrorDetails(err)
    IN  Wrap(Error("parse_error",
                   IF details # "" THEN msg \o ": " \o details ELSE msg),
             err.text)

\* Mutant of translateError: every non-nil error is wrapped, an *RPCError too.
translateErrorWrapAll(err) ==
    IF err.kind = "nil" THEN NilError
    ELSE InternalError(ErrorText(err))

\* translateError: coerce err into an *RPCError (or nil).
translateError(err) ==
    IF err.kind = "nil" THEN NilError
    ELSE IF err.kind = "rpc" THEN err
    ELSE InternalError(ErrorText(err))

\* A package-level error value of the application, returned by a handler on
\* every call: one *RPCError shared by all calls (and all engines).
errShared ==
    [kind |-> "rpc", Name |-> "conflict", Message |-> "already exists",
     data |-> "nil", wrapped |-> "duplicate key", ref |-> "errShared",
     dumpErrors |-> FALSE]

-----------------------------------------------------------------------------
(* Handlers and middleware layers of the application                       *)

\* The MethodFunc values handed to Register.
Fns == {"now", "upper", "do", "sentinel", "returnErrorWithData", "panicStr",
        "panicErr", "panicNil", "noop", "badsig", "notfunc"}

\* reflect: the kind of the value, the number of its parameters, and whether
\* the signature is one of the two accepted ones.
IsFunc(fn) == fn # "notfunc"
NumIn(fn) == IF fn = "upper" THEN 2 ELSE 1
ValidSignature(fn) == fn # "badsig"

\* The outcome of a call: a result, an error, or a panic with its value.
Outcome(result, err, panic, panicText) ==
    [result |-> result, err |-> err, panic |-> panic, panicText |-> panicText]
Returns(result, err) == Outcome(result, err, "none", "")
Panics(kind, text) == Outcome("nil", NilError, kind, text)

\* What each handler does with (ctx, params): m.fn.Call(args).
FnCall(fn, ctx, params) ==
    CASE fn = "now" -> Returns("2000-01-01T01:00:00Z", NilError)
      [] fn = "upper" -> Returns(IF params = "hello" THEN "HELLO" ELSE params, NilError)
      [] fn = "do" -> Returns("nil", PlainError("an internal error occurred"))
      [] fn = "sentinel" -> Returns("nil", errShared)
      [] fn = "returnErrorWithData" ->
            Returns("nil", Data(Error("invalid_customer", "customer failed validation"),
                                "name: must be present"))
      [] fn = "panicStr" -> Panics("string", "panic error")
      [] fn = "panicErr" -> Panics("error", "boom")
      [] fn = "panicNil" -> Panics("nil", "")
      [] OTHER -> Returns("nil", NilError)

\* A middleware layer is [id, kind]: a "next" layer calls next and returns
\* what it returned; a "short" layer returns (nil, nil) without calling next;
\* a "panic" layer panics before calling next; an "error" layer returns an
\* error of its own without calling next; a "reply" layer returns a result
\* of its own without calling next.
LayerKinds == {"next", "short", "panic", "error", "reply"}

\* What a layer that does not call next returns.
LayerOut(kind) ==
    CASE kind = "error" -> Returns("nil", PlainError("access denied"))
      [] kind = "reply" -> Returns("cached", NilError)
      [] OTHER -> Returns("nil", NilError)
Layer(id, kind) == [id |-> id, kind |-> kind]

Event(ev, layer, ctx, out) ==
    [ev |-> ev, layer |-> layer, method |-> ctx.method, request |-> ctx.request,
     result |-> out.result, err |-> out.err]

\* Mutant of RunCall: a layer that returns a value of its own has called
\* next before.
RECURSIVE RunCallThrough(_, _, _, _)
RunCallThrough(call, fn, ctx, params) ==
    IF call = <<>>
    THEN [out |-> FnCall(fn, ctx, params),
          events |-> <<Event("fn", 0, ctx, Returns("nil", NilError))>>]
    ELSE LET l == Head(call)
             enter == Event("call", l.id, ctx, Returns("nil", NilError))
             in == RunCallThrough(Tail(call), fn, ctx, params)
         IN  CASE l.kind = "panic" ->
                    [out |-> Panics("string", "middleware panic"),
                     events |-> <<enter>>]
               [] l.kind = "next" ->
                    [out |-> in.out,
                     events |-> <<enter>> \o in.events \o
                            (IF in.out.panic = "none"
                             THEN <<Event("ret", l.id, ctx, in.out)>>
                             ELSE <<>>)]
               [] OTHER ->
                    [out |-> LayerOut(l.kind),
                     events |-> <<enter>> \o in.events \o
                                <<Event("ret", l.id, ctx, LayerOut(l.kind))>>]

\* m.call: the composed pipeline, a sequence of layers (outermost first)
\* around the call of m.fn.  Running it yields the outcome and the events
\* observed, in order: "call" and "ret" of each layer, "fn" of the handler.
RECURSIVE RunCall(_, _, _, _)
RunCall(call, fn, ctx, params) ==
    IF call = <<>>
    THEN LET out == FnCall(fn, ctx, params)
         IN  [out |-> out,
              events |-> <<Event("fn", 0, ctx, Returns("nil", NilError))>>]
    ELSE LET l == Head(call)
             enter == Event("call", l.id, ctx, Returns("nil", NilError))
         IN  CASE l.kind = "panic" ->
                    [out |-> Panics("string", "middleware panic"),
                     events |-> <<enter>>]
               [] l.kind = "next" ->
                    LET in == RunCall(Tail(call), fn, ctx, params)
                    IN  [out |-> in.out,
                         events |-> <<enter>> \o in.events \o
                            (IF in.out.panic = "none"
                             THEN <<Event("ret", l.id, ctx, in.out)>>
                             ELSE <<>>)]
               [] OTHER ->
                    [out |-> LayerOut(l.kind),
                     events |-> <<enter, Event("ret", l.id, ctx, LayerOut(l.kind))>>]

-----------------------------------------------------------------------------
(* Groups, Use and Register (jsonrpc.go, method.go)                        *)

Groups == DOMAIN parent
\* No exchange is under way: the engine is set up between exchanges.
Idle == body.kind = "none"
Registered == DOMAIN methods
\* A call on the engine: the operation, the method name it was last busy
\* with ("" when none), the message of its panic ("" when it returned) and
\* the group on which it panicked (0 when it returned).
Op(op, g, name, panic) == [op |-> op, g |-> g, name |-> name, panic |-> panic]
NoOp == Op("New", 0, "", "")

\* Mutant of ApplyOwn: the loop runs from the first added layer to the last.
RECURSIVE ApplyOwnForward(_, _, _)
ApplyOwnForward(call, mw, i) ==
    IF i = 0 THEN call
    ELSE ApplyOwnForward(<<mw[Len(mw) - i + 1]>> \o call, mw, i - 1)

\* The layers of one group applied to a pipeline: from the last added to the
\* first added, each around what was built so far.
RECURSIVE ApplyOwn(_, _, _)
ApplyOwn(call, mw, i) ==
    IF i = 0 THEN call ELSE ApplyOwn(<<mw[i]>> \o call, mw, i - 1)

\* Mutant of ApplyMiddleware: the layers of the ancestors are applied first,
\* those of the group last.
RECURSIVE ApplyMiddlewareParentFirst(_, _)
ApplyMiddlewareParentFirst(call, g) ==
    LET c == IF parent[g] = 0 THEN call
             ELSE ApplyMiddlewareParentFirst(call, parent[g])
    IN  ApplyOwn(c, middleware[g], Len(middleware[g]))

\* Mutant of ApplyMiddleware: the loop stops after the layers of the group.
ApplyMiddlewareOwnOnly(call, g) == ApplyOwn(call, middleware[g], Len(middleware[g]))

\* "Apply middleware": the group's layers, then those of each ancestor.
RECURSIVE ApplyMiddleware(_, _)
ApplyMiddleware(call, g) ==
    LET c == ApplyOwn(call, middleware[g], Len(middleware[g]))
    IN  IF parent[g] = 0 THEN c ELSE ApplyMiddleware(c, parent[g])

\* The panic of resolveMethod, "" when it returns.
resolvePanic(fn) ==
    IF ~IsFunc(fn) THEN "string is not a function"
    ELSE IF ~ValidSignature(fn) THEN "invalid signature"
    ELSE ""

\* Group.resolveMethod: the method bound to name by group g.
resolveMethod(g, name, fn) ==
    [Name |-> name, fn |-> fn,
     paramsType |-> IF NumIn(fn) = 2 THEN "string" ELSE "nil",
     call |-> ApplyMiddleware(<<>>, g)]

\* Mutant of RegisterLoop: a name already registered is bound again.
RECURSIVE RegisterLoopOverwrite(_, _, _, _, _)
RegisterLoopOverwrite(g, entries, i, reg, own) ==
    IF i > Len(entries)
    THEN [methods |-> reg, owner |-> own, panic |-> "",
          name |-> IF entries = <<>> THEN "" ELSE entries[Len(entries)].name]
    ELSE LET e == entries[i]
         IN  IF resolvePanic(e.fn) # ""
             THEN [methods |-> reg, owner |-> own, name |-> e.name,
                   panic |-> resolvePanic(e.fn)]
             ELSE RegisterLoopOverwrite(g, entries, i + 1,
                    [n \in DOMAIN reg \cup {e.name} |->
                        IF n = e.name THEN resolveMethod(g, e.name, e.fn) ELSE reg[n]],
                    [n \in DOMAIN own \cup {e.name} |->
                        IF n = e.name THEN g ELSE own[n]])

\* The loop of Group.Register over the entries of the Methods map, in the
\* order the map iteration yields them.  reg is the registry so far.
RECURSIVE RegisterLoop(_, _, _, _, _)
RegisterLoop(g, entries, i, reg, own) ==
    IF i > Len(entries)
    THEN [methods |-> reg, owner |-> own, panic |-> "",
          name |-> IF entries = <<>> THEN "" ELSE entries[Len(entries)].name]
    ELSE LET e == entries[i]
         IN  IF e.name \in DOMAIN reg
             THEN [methods |-> reg, owner |-> own, name |-> e.name,
                   panic |-> "jsonrpc: method already registered: " \o e.name]
             ELSE IF resolvePanic(e.fn) # ""
             THEN [methods |-> reg, owner |-> own, name |-> e.name,
                   panic |-> resolvePanic(e.fn)]
             ELSE RegisterLoop(g, entries, i + 1,
                               (e.name :> resolveMethod(g, e.name, e.fn)) @@ reg,
                               (e.name :> g) @@ own)

\* Group.Group: a new subgroup of g.
Group(g) ==
    /\ g \in Groups
    /\ Idle
    /\ Cardinality(Groups) < MaxGroups
    /\ LET new == Cardinality(Groups) + 1
       IN  /\ parent' = (new :> g) @@ parent
           /\ middleware' = (new :> <<>>) @@ middleware
           /\ lastOp' = Op("Group", 0, "", "")
    /\ UNCHANGED <<methods, owner, DumpErrors, sharedDump, exchangeVars, reportVars>>

\* Mutant of Use: only the methods registered through g itself forbid it.
UsePerGroup(g, mw) ==
    /\ g \in Groups
    /\ Idle
    /\ IF \E n \in Registered : owner[n] = g
       THEN /\ lastOp' = Op("Use", g, "",
                             "jsonrpc: middleware must be registered before methods")
            /\ UNCHANGED middleware
       ELSE /\ middleware' = [middleware EXCEPT ![g] = @ \o mw]
            /\ lastOp' = Op("Use", 0, "", "")
    /\ UNCHANGED <<parent, methods, owner, DumpErrors, sharedDump, exchangeVars, reportVars>>

\* Mutant of Use: the layers are appended whatever is registered.
UseUnguarded(g, mw) ==
    /\ g \in Groups
    /\ Idle
    /\ middleware' = [middleware EXCEPT ![g] = @ \o mw]
    /\ lastOp' = Op("Use", 0, "", "")
    /\ UNCHANGED <<parent, methods, owner, DumpErrors, sharedDump, exchangeVars, reportVars>>

\* Group.Use: register the layers mw on group g.
Use(g, mw) ==
    /\ g \in Groups
    /\ Idle
    /\ IF Registered # {}
       THEN /\ lastOp' = Op("Use", g, "",
                             "jsonrpc: middleware must be registered before methods")
            /\ UNCHANGED middleware
       ELSE /\ middleware' = [middleware EXCEPT ![g] = @ \o mw]
            /\ lastOp' = Op("Use", 0, "", "")
    /\ UNCHANGED <<parent, methods, owner, DumpErrors, sharedDump, exchangeVars, reportVars>>

\* Group.Register: register the entries (the Methods map, as iterated).
Register(g, entries) ==
    /\ g \in Groups
    /\ Idle
    /\ \E r \in {RegisterLoop(g, entries, 1, methods, owner)} :
           /\ methods' = r.methods
           /\ owner' = r.owner
           /\ lastOp' = Op("Register", IF r.panic # "" THEN g ELSE 0, r.name, r.panic)
    /\ UNCHANGED <<parent, middleware, DumpErrors, sharedDump, exchangeVars, reportVars>>

-----------------------------------------------------------------------------
(* JSON values on the wire and their Go counterparts                       *)

\* The id of a request record as written in the body: absent, a number, a
\* string, a boolean or an array.
JsonID(j, v) == [j |-> j, v |-> v]
\* The id as json.Unmarshal stores it in request.ID (an interface{}).
GoID(t, v) == [t |-> t, v |-> v]

\* json.Unmarshal into an interface{}: the dynamic type of the stored value.
DecodeID(id) ==
    CASE id.j = "number" -> GoID("float64", id.v)
      [] id.j = "string" -> GoID("string", id.v)
      [] id.j = "bool" -> GoID("bool", id.v)
      [] id.j = "array" -> GoID("slice", id.v)
      [] OTHER -> GoID("nil", "")

\* json.Marshal of an interface{}: nil is written as null.
EncodeID(id) ==
    CASE id.t = "float64" -> JsonID("number", id.v)
      [] id.t = "string" -> JsonID("string", id.v)
      [] id.t = "bool" -> JsonID("bool", id.v)
      [] id.t = "slice" -> JsonID("array", id.v)
      [] OTHER -> JsonID("null", "")

\* Whether a Go value may be the key of a map[interface{}]: slices and maps
\* are not hashable, and using one panics.
Hashable(id) == id.t # "slice"

\* One element of the body: a request object, or the literal null.
Element(null, method, params, id) ==
    [null |-> null, method |-> method, params |-> params, id |-> id]

\* The *request an element decodes to; a null element decodes to a nil pointer.
DecodeRequest(e) ==
    [nil |-> e.null, Method |-> e.method, Params |-> e.params, ID |-> DecodeID(e.id)]

\* A decode fault of encoding/json.
NoType == GoType("Invalid", "", "", 0)
SyntaxError(offset, text) ==
    [type |-> "SyntaxError", Offset |-> offset, text |-> text, Value |-> "",
     Field |-> "", Type |-> NoType]
UnmarshalTypeError(offset, value, field, t) ==
    [type |-> "UnmarshalTypeError", Offset |-> offset,
     text |-> "json: cannot unmarshal " \o value, Value |-> value,
     Field |-> field, Type |-> t]
NoFault == [type |-> "", Offset |-> 0, text |-> "", Value |-> "", Field |-> "",
            Type |-> NoType]

\* The Go types decoded into here: the parameter of a method (a string for
\* every method that takes params) and the envelope, []*request.
TypeOf(name) ==
    CASE name = "string" -> GoType("String", "", "string", 0)
      [] name = "[]*request" -> GoType("Slice", "", "", 0)
      [] OTHER -> NoType

\* Mutant of UnmarshalParams: whatever the raw params are, they are accepted.
UnmarshalParamsLenient(raw, t) == [err |-> NoFault, value |-> raw]

\* json.Unmarshal(req.Params, params) for a method whose parameter is a string:
\* the raw params are absent (no bytes), a JSON string or a JSON number.
UnmarshalParams(raw, t) ==
    CASE raw = "absent" ->
            [err |-> SyntaxError(0, "unexpected end of JSON input"), value |-> "nil"]
      [] raw = "1" ->
            [err |-> UnmarshalTypeError(1, "number", "", TypeOf(t)), value |-> "nil"]
      [] OTHER -> [err |-> NoFault, value |-> "hello"]

\* The request body: unreadable, truncated JSON, a scalar, the literal null,
\* one object, or an array of elements.
Body(kind, recs) == [kind |-> kind, recs |-> recs]
NoBody == Body("none", <<>>)

-----------------------------------------------------------------------------
(* The exchange (jsonrpc.go)                                                *)

\* "Assert ids are unique": the loop over the parsed requests; uniq is the
\* set of ids seen.  A nil request or an unhashable id panics.
RECURSIVE UniqLoop(_, _, _)
UniqLoop(result, i, uniq) ==
    IF i > Len(result) THEN [err |-> NilError, panic |-> ""]
    ELSE IF result[i].nil
    THEN [err |-> NilError, panic |-> "invalid memory address or nil pointer dereference"]
    ELSE IF ~Hashable(result[i].ID)
    THEN [err |-> NilError, panic |-> "hash of unhashable type []interface {}"]
    ELSE IF result[i].ID \in uniq
    THEN [err |-> InvalidRequest("ids must be unique"), panic |-> ""]
    ELSE UniqLoop(result, i + 1, uniq \cup {result[i].ID})

\* Mutant of parseRequests: the length of the result is not looked at.
parseRequestsUnchecked(b) ==
    LET Fail(e) == [result |-> <<>>, err |-> e, panic |-> ""]
    IN  CASE b.kind = "unreadable" ->
                Fail(Wrap(InvalidRequest("could not read body"), "unexpected EOF"))
          [] b.kind = "truncated" ->
                Fail(ParseError(SyntaxError(8, "unexpected end of JSON input"),
                                "cannot parse request"))
          [] b.kind = "scalar" ->
                Fail(ParseError(UnmarshalTypeError(1, "number", "", TypeOf("[]*request")),
                                "cannot parse request"))
          [] OTHER ->
                LET result == [i \in 1..Len(b.recs) |-> DecodeRequest(b.recs[i])]
                    u == UniqLoop(result, 1, {})
                IN  [result |-> result, err |-> u.err, panic |-> u.panic]

\* parseRequests: the requests of the body, or an error, or a panic.
parseRequests(b) ==
    LET Fail(e) == [result |-> <<>>, err |-> e, panic |-> ""]
    IN  CASE b.kind = "unreadable" ->
                Fail(Wrap(InvalidRequest("could not read body"), "unexpected EOF"))
          [] b.kind = "truncated" ->
                Fail(ParseError(SyntaxError(8, "unexpected end of JSON input"),
                                "cannot parse request"))
          [] b.kind = "scalar" ->
                Fail(ParseError(UnmarshalTypeError(1, "number", "", TypeOf("[]*request")),
                                "cannot parse request"))
          [] OTHER ->
                LET result == [i \in 1..Len(b.recs) |-> DecodeRequest(b.recs[i])]
                IN  IF Len(result) = 0 THEN Fail(InvalidRequest("empty batch"))
                    ELSE LET u == UniqLoop(result, 1, {})
                         IN  [result |-> result, err |-> u.err, panic |-> u.panic]

\* The deferred function of invokeMethod: recover() yields nil when nothing
\* panicked and, with the Go version of go.mod (1.12), also when the panic
\* value is nil; then the named results are left as they are.
Recover(out) ==
    IF out.panic \in {"error", "string"}
    THEN Returns("nil", InternalError(out.panicText))
    ELSE Returns(out.result, out.err)

\* Mutant of WithValue: the context is handed on as it was.
WithValueDropped(ctx, key, val) == ctx

\* context.WithValue: the context with val under key.
WithValue(ctx, key, val) == [ctx EXCEPT ![key] = val]

\* Mutant of invokeMethod: the method is looked up before the id is validated.
invokeMethodLookupFirst(ctx0, req) ==
    LET ctx == WithValue(ctx0, "method", req.Method)
        Stop(e) == [out |-> Returns("nil", e), events |-> <<>>]
    IN  IF req.Method \notin Registered
        THEN Stop(MethodNotFound(req.Method))
        ELSE IF req.ID.t \notin {"float64", "string"}
        THEN Stop(InvalidRequest("id must be number or string"))
        ELSE LET method == methods[req.Method]
                 dec == IF method.paramsType # "nil"
                        THEN UnmarshalParams(req.Params, method.paramsType)
                        ELSE [err |-> NoFault, value |-> "nil"]
             IN  IF dec.err # NoFault
                 THEN Stop(ParseError(dec.err, "cannot parse params"))
                 ELSE LET run == RunCall(method.call, method.fn, ctx, dec.value)
                          out == IF run.out.panic # "none" THEN Recover(run.out)
                                 ELSE IF run.out.err.kind # "nil"
                                 THEN Returns("nil", translateError(run.out.err))
                                 ELSE Returns(run.out.result, NilError)
                      IN  [out |-> out, events |-> run.events]

\* Handler.invokeMethod: the result and error of one request, and the events
\* of its pipeline.
invokeMethod(ctx0, req) ==
    LET ctx == WithValue(ctx0, "method", req.Method)
        Stop(e) == [out |-> Returns("nil", e), events |-> <<>>]
    IN  IF req.ID.t \notin {"float64", "string"}
        THEN Stop(InvalidRequest("id must be number or string"))
        ELSE IF req.Method \notin Registered
        THEN Stop(MethodNotFound(req.Method))
        ELSE LET method == methods[req.Method]
                 dec == IF method.paramsType # "nil"
                        THEN UnmarshalParams(req.Params, method.paramsType)
                        ELSE [err |-> NoFault, value |-> "nil"]
             IN  IF dec.err # NoFault
                 THEN Stop(ParseError(dec.err, "cannot parse params"))
                 ELSE LET run == RunCall(method.call, method.fn, ctx, dec.value)
                          out == IF run.out.panic # "none" THEN Recover(run.out)
                                 ELSE IF run.out.err.kind # "nil"
                                 THEN Returns("nil", translateError(run.out.err))
                                 ELSE Returns(run.out.result, NilError)
                      IN  [out |-> out, events |-> run.events]

\* The response of ServeHTTP for one request.
Response(id, result, err) == [ID |-> id, Result |-> result, Error |-> err]

\* (*RPCError).MarshalJSON; dump is the dumpErrors field of the error value.
MarshalJSON(e, dump) ==
    [present |-> e.kind # "nil", name |-> e.Name, message |-> e.Message,
     data |-> IF e.data = "nil" THEN "absent" ELSE e.data,
     details |-> IF dump /\ e.wrapped # "nil" THEN e.wrapped ELSE "absent"]

\* The dumpErrors field of an error value: that of errShared is the one
\* package-level field, whatever exchange reads it.
DumpField(e, shared) == IF e.ref = "errShared" THEN shared ELSE e.dumpErrors

\* json encoding of a response: result and error are omitted when empty.
MarshalResponse(r, shared) ==
    [id |-> EncodeID(r.ID),
     result |-> IF r.Result = "nil" THEN "absent" ELSE r.Result,
     error |-> MarshalJSON(r.Error, DumpField(r.Error, shared))]

\* sendJSON: the status and the encoded value.
NoResponse == [status |-> 0, kind |-> "none", records |-> <<>>]
sendJSON(status, kind, records) == [status |-> status, kind |-> kind, records |-> records]

\* The loop of ServeHTTP over the requests: each is invoked in turn, with the
\* context of the exchange.
InvokeAll(ctx, requests) ==
    [i \in 1..Len(requests) |-> invokeMethod(ctx, requests[i])]

\* Mutant of Responses: the outcomes are appended in the reverse order.
ResponsesReversed(requests, runs) ==
    [i \in 1..Len(requests) |->
        Response(requests[i].ID, runs[Len(runs) + 1 - i].out.result,
                 translateError(runs[Len(runs) + 1 - i].out.err))]

\* The responses appended by the loop: the id of each request with the result
\* and the translated error of its invocation.
Responses(requests, runs) ==
    [i \in 1..Len(requests) |->
        Response(requests[i].ID, runs[i].out.result, translateError(runs[i].out.err))]

\* Whether setting the dumpErrors fields writes the field of errShared.
MarksShared(responses, dump) ==
    dump /\ \E i \in 1..Len(responses) : responses[i].Error.ref = "errShared"

\* "if h.DumpErrors": the responses with the dumpErrors field of each error set.
MarkDump(responses, dump) ==
    [i \in 1..Len(responses) |->
        IF dump /\ responses[i].Error.kind # "nil"
        THEN [responses[i] EXCEPT !.Error.dumpErrors = TRUE]
        ELSE responses[i]]

\* What one run of ServeHTTP leaves behind: the panic that escaped it, if
\* any, what was written to w, the responses it built, the events of each
\* pipeline, and the dumpErrors field of errShared.
Exchange(fault_, w_, responses, events_, shared) ==
    [fault |-> fault_, w |-> w_, responses |-> responses, events |-> events_,
     sharedDump |-> shared]

\* Mutant of sendResponses: the responses are always encoded as an array.
sendResponsesArray(responses, runs, shared) ==
    Exchange("",
             sendJSON(200, "array",
                      [i \in 1..Len(responses) |-> MarshalResponse(responses[i], shared)]),
             responses,
             [i \in 1..Len(runs) |-> runs[i].events],
             shared)

\* The end of ServeHTTP: the dumpErrors fields are set, then the responses
\* are encoded, one object for one request and an array otherwise.
sendResponses(responses, runs, shared) ==
    Exchange("",
             sendJSON(200, IF Len(responses) = 1 THEN "object" ELSE "array",
                      [i \in 1..Len(responses) |-> MarshalResponse(responses[i], shared)]),
             responses,
             [i \in 1..Len(runs) |-> runs[i].events],
             shared)

\* The loop of ServeHTTP and what follows it, for the parsed requests.
serveRequests(requests, dump, shared0) ==
    CHOOSE x \in
        {CHOOSE y \in
            {sendResponses(responses, runs, shared0 \/ MarksShared(responses, dump)) :
                responses \in {MarkDump(Responses(requests, runs), dump)}} : TRUE :
         runs \in {InvokeAll([method |-> "", request |-> "r"], requests)}} : TRUE

\* Mutant of serve: the requests that were decoded are invoked before the
\* error of parseRequests is looked at.
serveDispatching(b, dump, shared0) ==
    CHOOSE x \in
        {IF p.panic # ""
         THEN Exchange(p.panic, NoResponse, <<>>, <<>>, shared0)
         ELSE IF p.err.kind # "nil"
         THEN Exchange("",
                       sendJSON(400, "object",
                          <<MarshalResponse(Response(GoID("nil", ""), "nil",
                                                     translateError(p.err)), shared0)>>),
                       <<Response(GoID("nil", ""), "nil", translateError(p.err))>>,
                       [i \in 1..Len(p.result) |->
                           invokeMethod([method |-> "", request |-> "r"],
                                        p.result[i]).events],
                       shared0)
         ELSE serveRequests(p.result, dump, shared0) :
         p \in {parseRequests(b)}} : TRUE

\* ServeHTTP with h.DumpErrors = dump, the dumpErrors field of errShared
\* being shared0 when it starts.
serve(b, dump, shared0) ==
    CHOOSE x \in
        {IF p.panic # ""
         THEN Exchange(p.panic, NoResponse, <<>>, <<>>, shared0)
         ELSE IF p.err.kind # "nil"
         THEN Exchange("",
                       sendJSON(400, "object",
                          <<MarshalResponse(Response(GoID("nil", ""), "nil",
                                                     translateError(p.err)), shared0)>>),
                       <<Response(GoID("nil", ""), "nil", translateError(p.err))>>,
                       <<>>, shared0)
         ELSE serveRequests(p.result, dump, shared0) :
         p \in {parseRequests(b)}} : TRUE

\* Mutant of ServeHTTP: the methods the body names are dropped from the
\* registry once served.
ServeHTTPForgetful(b) ==
    \E x \in {serve(b, DumpErrors, sharedDump)} :
        /\ body' = b
        /\ lastOp' = Op("ServeHTTP", 0, "", "")
        /\ fault' = x.fault
        /\ w' = x.w
        /\ events' = x.events
        /\ sharedDump' = x.sharedDump
        /\ methods' = [n \in Registered \ {b.recs[i].method : i \in 1..Len(b.recs)} |->
                          methods[n]]
        /\ UNCHANGED <<parent, middleware, owner, DumpErrors, reportVars>>

\* Handler.ServeHTTP on a request with body b.
ServeHTTP(b) ==
    \E x \in {serve(b, DumpErrors, sharedDump)} :
        /\ body' = b
        /\ lastOp' = Op("ServeHTTP", 0, "", "")
        /\ fault' = x.fault
        /\ w' = x.w
        /\ events' = x.events
        /\ sharedDump' = x.sharedDump
        /\ UNCHANGED <<buildVars, DumpErrors, reportVars>>

\* The test helper do: a new request with body b and a new recorder, served.
do(b) ==
    /\ Idle
    /\ ServeHTTP(b)

\* The recorder returned by do is dropped.
Discard ==
    /\ ~Idle
    /\ body' = NoBody
    /\ w' = NoResponse
    /\ fault' = ""
    /\ events' = <<>>
    /\ UNCHANGED <<buildVars, DumpErrors, sharedDump, lastOp, reportVars>>

\* server.DumpErrors = v, between two exchanges.
SetDumpErrors(v) ==
    /\ Idle
    /\ DumpErrors # v
    /\ DumpErrors' = v
    /\ UNCHANGED <<buildVars, sharedDump, exchangeVars, lastOp, reportVars>>

\* New(): no group but the root, no middleware, no method.
New ==
    /\ parent = (1 :> 0)
    /\ middleware = (1 :> <<>>)
    /\ methods = <<>>
    /\ owner = <<>>
    /\ DumpErrors = FALSE
    /\ sharedDump = FALSE
    /\ lastOp = NoOp
    /\ body = NoBody
    /\ w = NoResponse
    /\ fault = ""
    /\ events = <<>>

Init ==
    /\ New
    /\ decodeErr = NoFault
    /\ reported = <<>>

-----------------------------------------------------------------------------
(* The build phase alone: any tree of groups, any Use and Register, and     *)
(* single calls of the registered methods                                   *)

Names == {"A", "B"}
BuildFns == {"noop", "badsig"}

\* The ids of the layers registered so far; Use is handed fresh layers.
UsedLayers ==
    UNION {{middleware[g][i].id : i \in 1..Len(middleware[g])} : g \in Groups}

\* The arguments of one Use call: no layer, one layer or two layers, each a
\* layer that calls next.
LayerSeqs ==
    LET n == Cardinality(UsedLayers)
    IN  {<<>>}
        \cup (IF n + 1 <= MaxLayers THEN {<<Layer(n + 1, "next")>>} ELSE {})
        \cup (IF n + 2 <= MaxLayers
              THEN {<<Layer(n + 1, "next"), Layer(n + 2, "next")>>} ELSE {})

\* The Methods maps handed to Register, in every iteration order.
Entry(name, fn) == [name |-> name, fn |-> fn]
EntrySeqs ==
    {<<>>}
    \cup {<<Entry(n, f)>> : n \in Names, f \in BuildFns}
    \cup {<<Entry(n[1], f[1]), Entry(n[2], f[2])>> :
            n \in {x \in Names \X Names : x[1] # x[2]}, f \in BuildFns \X BuildFns}

\* A single request {"id": 1, "method": n, "params": "hello"}.
CallBody(n) == Body("object", <<Element(FALSE, n, "hello", JsonID("number", "1"))>>)

NextBuild ==
    \/ \E g \in Groups : Group(g)
    \/ \E g \in Groups : \E mw \in LayerSeqs : Use(g, mw)
    \/ \E g \in Groups : \E entries \in EntrySeqs : Register(g, entries)
    \/ Idle /\ \E n \in Names : do(CallBody(n))
    \/ Discard

SpecBuild == Init /\ [][NextBuild]_vars

-----------------------------------------------------------------------------
(* A server set up as the tests set theirs up, and its exchanges            *)

\* The methods of the server, registered on the root group.
RootMethods ==
    <<Entry("Now", "now"), Entry("Upper", "upper"), Entry("Do", "do"),
      Entry("Sentinel", "sentinel"), Entry("ReturnErrorWithData", "returnErrorWithData"),
      Entry("Panic", "panicStr"), Entry("PanicErr", "panicErr"),
      Entry("PanicNil", "panicNil"), Entry("Noop", "noop")>>
\* The method of the subgroup, whose middleware panics.
GroupMethods == <<Entry("Guarded", "now")>>
\* The method of a second subgroup, whose middleware returns an error.
SiblingMethods == <<Entry("Denied", "now")>>

EntryNames(entries) == {entries[i].name : i \in 1..Len(entries)}
SetupDone ==
    Registered = EntryNames(RootMethods) \cup EntryNames(GroupMethods)
                    \cup EntryNames(SiblingMethods)

\* The set-up of the server, one call after the other:
\*   h.Use(l1); g := h.Group(); g.Use(l2); g2 := h.Group(); g2.Use(l3);
\*   h.Register(...); g.Register(...); g2.Register(...)
Setup ==
    \/ /\ Cardinality(Groups) = 1 /\ middleware[1] = <<>> /\ Registered = {}
       /\ Use(1, <<Layer(1, "next")>>)
    \/ /\ Cardinality(Groups) = 1 /\ middleware[1] # <<>>
       /\ Group(1)
    \/ /\ Cardinality(Groups) = 2 /\ middleware[2] = <<>> /\ Registered = {}
       /\ Use(2, <<Layer(2, "panic")>>)
    \/ /\ Cardinality(Groups) = 2 /\ middleware[2] # <<>>
       /\ Group(1)
    \/ /\ 3 \in Groups /\ middleware[3] = <<>> /\ Registered = {}
       /\ Use(3, <<Layer(3, "error")>>)
    \/ /\ 3 \in Groups /\ middleware[3] # <<>> /\ Registered = {}
       /\ Register(1, RootMethods)
    \/ /\ Registered = EntryNames(RootMethods)
       /\ Register(2, GroupMethods)
    \/ /\ Registered = EntryNames(RootMethods) \cup EntryNames(GroupMethods)
       /\ Register(3, SiblingMethods)

\* The ids and the records a client may send.
JsonIDs ==
    {JsonID("absent", ""), JsonID("null", ""), JsonID("number", "1"),
     JsonID("number", "2"), JsonID("string", "1"), JsonID("bool", "true"),
     JsonID("array", "[1]")}
CallNames ==
    EntryNames(RootMethods) \cup EntryNames(GroupMethods)
        \cup EntryNames(SiblingMethods) \cup {"Invalid"}
ParamsOf(n) ==
    IF n = "Upper" THEN {"absent", "hello", "1"}
    ELSE IF n = "Do" THEN {"absent", "1"}
    ELSE {"absent"}
\* Every call is sent with the ids 1 and "1"; the calls of Now and of the
\* unregistered Invalid are sent with every id.
IDsOf(n) ==
    IF n \in {"Now", "Invalid"} THEN JsonIDs
    ELSE {JsonID("number", "1"), JsonID("string", "1")}
Records ==
    {Element(FALSE, n, p, id) : n \in CallNames, p \in {"absent", "hello", "1"},
                                 id \in JsonIDs}
Elements ==
    {e \in Records : e.params \in ParamsOf(e.method) /\ e.id \in IDsOf(e.method)}
    \cup {Element(TRUE, "", "absent", JsonID("absent", ""))}
Bodies ==
    {Body(k, <<>>) : k \in {"unreadable", "truncated", "scalar", "null"}}
    \cup {Body("object", <<e>>) : e \in {x \in Elements : ~x.null}}
    \cup {Body("array", s) : s \in UNION {[1..n -> Elements] : n \in 0..MaxBatch}}

Next ==
    \/ Setup
    \/ SetupDone /\ \E v \in BOOLEAN : SetDumpErrors(v)
    \/ SetupDone /\ Idle /\ \E b \in Bodies : do(b)
    \/ Discard

Spec == Init /\ [][Next]_vars

-----------------------------------------------------------------------------
(* One group with layers of every kind, as in Example_middleware           *)

\* The arguments of the one Use call: up to MaxLayers layers, each of any
\* kind.
PipelineSeqs ==
    UNION {{[i \in 1..n |-> Layer(i, ks[i])] : ks \in [1..n -> LayerKinds]} :
              n \in 0..MaxLayers}

\* h.Use(...); h.Register(...); then single calls of the methods.
NextPipeline ==
    \/ lastOp = NoOp /\ \E mw \in PipelineSeqs : Use(1, mw)
    \/ lastOp.op = "Use" /\ Register(1, RootMethods)
    \/ Registered # {} /\ Idle /\ \E n \in EntryNames(RootMethods) : do(CallBody(n))
    \/ Discard

SpecPipeline == Init /\ [][NextPipeline]_vars

-----------------------------------------------------------------------------
(* jsonErrorDetails alone: any decode fault, and the call that reports it   *)

\* The predeclared types, by kind and name.
Predeclared ==
    {<<"Bool", "bool">>, <<"String", "string">>, <<"Uintptr", "uintptr">>,
     <<"Int", "int">>, <<"Int8", "int8">>, <<"Int16", "int16">>,
     <<"Int32", "int32">>, <<"Int64", "int64">>,
     <<"Uint", "uint">>, <<"Uint8", "uint8">>, <<"Uint16", "uint16">>,
     <<"Uint32", "uint32">>, <<"Uint64", "uint64">>,
     <<"Float32", "float32">>, <<"Float64", "float64">>,
     <<"Complex64", "complex64">>, <<"Complex128", "complex128">>}

\* The kinds of the unnamed composite types, such as []string, [0]string,
\* map[string]string, struct{...} and interface{}.
Composite == {"Struct", "Map", "Array", "Slice", "Interface", "Chan", "Func"}

\* Defined types, by kind, package and name: those of TestJSONType (Enum,
\* Person, time.Time, time.Duration) and others of each shape.
Defined ==
    {<<"Int", "main", "Enum">>, <<"Struct", "main", "Person">>,
     <<"Bool", "main", "Flag">>, <<"String", "main", "Name">>,
     <<"Float64", "main", "Ratio">>, <<"Slice", "main", "Tags">>,
     <<"Map", "main", "Index">>, <<"Interface", "main", "Shape">>,
     <<"Struct", "time", "Time">>, <<"Int64", "time", "Duration">>,
     <<"Int", "time", "Month">>, <<"Struct", "civil", "Time">>,
     <<"Int64", "metrics", "Duration">>}

GoTypes ==
    UNION {{GoType(p[1], "", p[2], n) : p \in Predeclared}
           \cup {GoType(k, "", "", n) : k \in Composite}
           \cup {GoType(d[1], d[2], d[3], n) : d \in Defined} : n \in 0..MaxPtr}

\* An error that is neither a *json.SyntaxError nor a *json.UnmarshalTypeError.
OtherError(type, text) ==
    [type |-> type, Offset |-> 0, text |-> text, Value |-> "", Field |-> "",
     Type |-> NoType]

\* The decode faults: those of TestJSONErrorDetails, at every offset, for every
\* type decoded into, with and without a field.
DecodeFaults ==
    {SyntaxError(o, t) :
        o \in 0..MaxOffset,
        t \in {"unexpected end of JSON input",
               "invalid character 'x' looking for beginning of value"}}
    \cup {UnmarshalTypeError(o, v, f, t) :
            o \in 0..MaxOffset, v \in {"number", "string", "bool"},
            f \in {"", "count", "nested.count"}, t \in GoTypes}
    \cup {OtherError("InvalidUnmarshalError", "json: Unmarshal(nil)"),
          OtherError("errorString", "unexpected EOF")}

InitDetails ==
    /\ New
    /\ decodeErr \in DecodeFaults
    /\ reported = <<>>

\* got := jsonErrorDetails(err)
Details ==
    /\ reported = <<>>
    /\ reported' = <<jsonErrorDetails(decodeErr)>>
    /\ UNCHANGED <<buildVars, DumpErrors, sharedDump, lastOp, exchangeVars, decodeErr>>

NextDetails == Details

SpecDetails == InitDetails /\ [][NextDetails]_vars

-----------------------------------------------------------------------------
(* Properties of the middleware order (checked under SpecBuild)             *)

\* The strict ancestors of a group, up to the root.
RECURSIVE Ancestors(_)
Ancestors(g) == IF parent[g] = 0 THEN {} ELSE {parent[g]} \cup Ancestors(parent[g])

\* The ids of the layers of a group.
LayerIds(g) == {middleware[g][i].id : i \in 1..Len(middleware[g])}

\* The position of the event ev of layer id in the events es, 0 when absent.
Pos(es, ev, id) ==
    LET at == {k \in 1..Len(es) : es[k].ev = ev /\ es[k].layer = id}
    IN  IF at = {} THEN 0 ELSE CHOOSE k \in at : \A j \in at : k <= j

\* The records of the last exchange whose pipeline was run.
Dispatched == {i \in 1..Len(events) : events[i] # <<>>}
\* The group the method of record i was registered through.
GroupOf(i) == owner[body.recs[i].method]

\* Layer x is outside layer y in the events es: x observes the call before y
\* does, and observes the return after y has returned.
Outside(es, x, y) ==
    /\ Pos(es, "call", y) > 0 =>
          /\ Pos(es, "call", x) > 0
          /\ Pos(es, "call", x) < Pos(es, "call", y)
    /\ Pos(es, "ret", y) > 0 => Pos(es, "ret", x) > Pos(es, "ret", y)

\* C1: for every call of a method registered through a group, every layer of
\* an ancestor of a group of its chain runs outside every layer of that
\* group, and the handler runs inside every layer of the chain.
C1_ParentOutsideChild ==
    \A i \in Dispatched :
        LET es == events[i]
            chain == {GroupOf(i)} \cup Ancestors(GroupOf(i))
        IN  /\ \A c \in chain : \A a \in Ancestors(c) :
                  \A x \in LayerIds(a) : \A y \in LayerIds(c) : Outside(es, x, y)
            /\ \A c \in chain : \A x \in LayerIds(c) :
                  Pos(es, "fn", 0) > 0 =>
                     /\ Pos(es, "call", x) > 0
                     /\ Pos(es, "call", x) < Pos(es, "fn", 0)
                     /\ Pos(es, "ret", x) > Pos(es, "fn", 0)

\* A method registered through a grandchild of the root was called, the root
\* and the grandchild each have a layer, and both layers and the handler ran.
C1_Witness ==
    \E i \in Dispatched :
        LET g == GroupOf(i)
        IN  /\ parent[g] # 0 /\ parent[parent[g]] = 1
            /\ middleware[g] # <<>> /\ middleware[1] # <<>>
            /\ Len(events[i]) = 5

\* C2 as claimed: of the layers of one group, a layer added later is outside
\* every layer added before it.
C2_LastAddedOutermost ==
    \A i \in Dispatched :
        LET mw == middleware[GroupOf(i)]
        IN  \A j, k \in 1..Len(mw) : j < k => Outside(events[i], mw[k].id, mw[j].id)

\* C2 as amended: of the layers of one group, a layer added earlier is outside
\* every layer added after it; the first added is the outermost.
C2_FirstAddedOutermost ==
    \A i \in Dispatched :
        LET mw == middleware[GroupOf(i)]
        IN  \A j, k \in 1..Len(mw) : j < k => Outside(events[i], mw[j].id, mw[k].id)

\* A method of a group with two layers was called, and both layers returned.
C2_Witness ==
    \E i \in Dispatched :
        LET mw == middleware[GroupOf(i)]
        IN  /\ Len(mw) >= 2
            /\ Pos(events[i], "ret", mw[1].id) > 0
            /\ Pos(events[i], "ret", mw[2].id) > 0

-----------------------------------------------------------------------------
(* Properties of Use and Register (checked under SpecBuild)                 *)

\* A step made by a call of op: the calls on the engine are made between
\* exchanges, and every one of them records itself in lastOp.
StepOf(op) == lastOp'.op = op /\ Idle /\ Idle' /\ DumpErrors' = DumpErrors

UsePanic == "jsonrpc: middleware must be registered before methods"

\* C3: a Use on any group panics whenever a method is registered anywhere,
\* and then changes no middleware list and no registry entry; with no method
\* registered it returns, having appended its layers, in the order of the
\* arguments, to the list of one group and changed nothing else.
C3_UseBeforeRegister ==
    [][StepOf("Use") =>
          IF Registered # {}
          THEN /\ lastOp'.panic = UsePanic
               /\ UNCHANGED <<middleware, methods, parent, owner>>
          ELSE /\ lastOp'.panic = ""
               /\ UNCHANGED <<methods, parent, owner>>
               /\ \E g \in Groups : \E mw \in LayerSeqs :
                     middleware' = [middleware EXCEPT ![g] = middleware[g] \o mw]]_vars

\* A Use on a group panicked although no method was registered through that
\* group, while another group holds middleware.
C3_Witness ==
    /\ lastOp.op = "Use" /\ lastOp.panic = UsePanic
    /\ Registered # {}
    /\ \A n \in Registered : owner[n] # lastOp.g
    /\ \E g \in Groups : g # lastOp.g /\ middleware[g] # <<>>

\* C4: no step changes or removes a registered method, and a Register that
\* comes to a name already in the registry panics, naming it.
C4_NamesUnique ==
    [][/\ \A n \in Registered : n \in DOMAIN methods' /\ methods'[n] = methods[n]
       /\ (StepOf("Register") /\ lastOp'.name \in Registered) =>
             lastOp'.panic = "jsonrpc: method already registered: " \o lastOp'.name]_vars

\* A Register panicked on a name that was registered through another group,
\* whose middleware differs.
C4_Witness ==
    /\ lastOp.op = "Register"
    /\ lastOp.name \in Registered
    /\ lastOp.panic = "jsonrpc: method already registered: " \o lastOp.name
    /\ owner[lastOp.name] # lastOp.g
    /\ middleware[owner[lastOp.name]] # middleware[lastOp.g]

-----------------------------------------------------------------------------
(* Properties of the exchange (checked under Spec)                          *)

\* An exchange has been served and its recorder is still held.
Answered == ~Idle /\ fault = ""

\* The body is an array of at least two request objects, each with a number
\* or a string as its id, no two ids the same.
ValidBatch ==
    /\ body.kind = "array" /\ Len(body.recs) >= 2
    /\ \A i \in 1..Len(body.recs) :
          ~body.recs[i].null /\ body.recs[i].id.j \in {"number", "string"}
    /\ \A i, j \in 1..Len(body.recs) : i # j => body.recs[i].id # body.recs[j].id

\* The response record the engine gives to element e sent on its own.
Alone(e) == serve(Body("object", <<e>>), DumpErrors, sharedDump).w.records[1]

\* C5: the answer to a valid batch of n >= 2 records with distinct ids is an
\* array of n response records with status 200, the i-th carrying the id of
\* the i-th request and the outcome that request has on its own.
C5_BatchOrder ==
    ValidBatch =>
        /\ fault = "" /\ w.status = 200 /\ w.kind = "array"
        /\ Len(w.records) = Len(body.recs)
        /\ \A i \in 1..Len(body.recs) :
              /\ w.records[i].id = body.recs[i].id
              /\ w.records[i] = Alone(body.recs[i])

\* A valid batch whose first record failed and whose second succeeded, the
\* ids being the number 1 and the string "1", was answered.
C5_Witness ==
    /\ ValidBatch /\ w.kind = "array"
    /\ body.recs[1].id = JsonID("string", "1") /\ body.recs[2].id = JsonID("number", "1")
    /\ w.records[1].error.present /\ w.records[1].result = "absent"
    /\ ~w.records[2].error.present /\ w.records[2].result # "absent"

\* The one record of the answer to a body the engine rejects as a whole.
Rejected(name, message) ==
    /\ fault = "" /\ w.status = 400 /\ w.kind = "object" /\ Len(w.records) = 1
    /\ w.records[1].id = JsonID("null", "")
    /\ w.records[1].result = "absent"
    /\ w.records[1].error.present
    /\ w.records[1].error.name = name /\ w.records[1].error.message = message

\* Two request objects of the array carry the same id.
DuplicateIDs ==
    /\ body.kind = "array"
    /\ \A i \in 1..Len(body.recs) : ~body.recs[i].null
    /\ \E i, j \in 1..Len(body.recs) :
          i # j /\ body.recs[i].id.j # "absent" /\ body.recs[i].id = body.recs[j].id

\* C6: a batch in which two records carry the same id, of whatever type, is
\* answered with status 400 and the one error invalid_request "ids must be
\* unique", the id null.
C6_DuplicateIDsRejected ==
    DuplicateIDs => Rejected("invalid_request", "ids must be unique")

\* A batch of two records with the same array as id made ServeHTTP panic,
\* and nothing was written.
C6_PanicOnArrayIDs ==
    /\ DuplicateIDs /\ body.recs[1].id.j = "array"
    /\ fault = "hash of unhashable type []interface {}"
    /\ w = NoResponse

\* The pipeline of record i was run and panicked, in the handler or in a layer.
Panicked(i) ==
    /\ i \in Dispatched
    /\ LET m == methods[body.recs[i].method]
           e == events[i][Len(events[i])]
       IN  \/ e.ev = "fn" /\ FnCall(m.fn, [method |-> e.method, request |-> e.request],
                                   body.recs[i].params).panic # "none"
           \/ e.ev = "call" /\ \E k \in 1..Len(m.call) :
                                  m.call[k].id = e.layer /\ m.call[k].kind = "panic"

\* C7: a panic of any kind in the pipeline of a record becomes that record's
\* error internal_error "internal error" under the record's own id, with
\* status 200, without escaping ServeHTTP, the other records of the batch
\* being answered as they are on their own.
C7_PanicsBecomeInternalError ==
    \A i \in 1..Len(events) :
        Panicked(i) =>
            /\ fault = "" /\ w.status = 200
            /\ Len(w.records) = Len(body.recs)
            /\ w.records[i].id = body.recs[i].id
            /\ w.records[i].result = "absent"
            /\ w.records[i].error.present
            /\ w.records[i].error.name = "internal_error"
            /\ w.records[i].error.message = "internal error"
            /\ \A j \in 1..Len(body.recs) :
                  j # i => w.records[j] = Alone(body.recs[j])

\* A handler panicked with nil and its record was answered with neither a
\* result nor an error.
C7_NilPanicSwallowed ==
    \E i \in 1..Len(events) :
        /\ Panicked(i)
        /\ methods[body.recs[i].method].fn = "panicNil"
        /\ w.status = 200
        /\ ~w.records[i].error.present /\ w.records[i].result = "absent"

\* C8: while DumpErrors is false, no error of any response carries details,
\* whatever exchanges and settings of DumpErrors came before.
C8_NoDetailsWhenOff ==
    (Answered /\ ~DumpErrors) =>
        \A i \in 1..Len(w.records) : w.records[i].error.details = "absent"

\* With DumpErrors false, the error of a response carries details.
C8_DetailsLeak ==
    /\ Answered /\ ~DumpErrors
    /\ \E i \in 1..Len(w.records) :
          w.records[i].error.present /\ w.records[i].error.details = "duplicate key"

\* The error values of the answer held by the recorder, in the order of its
\* records.
Emitted == serve(body, DumpErrors, sharedDump).responses

\* C9: while DumpErrors is true, every error of a response that wraps a
\* cause carries it as details, in the records of a 200 answer and in the
\* one record of a 400 answer alike.
C9_DetailsWhenOn ==
    (Answered /\ DumpErrors) =>
        \A i \in 1..Len(w.records) :
            Emitted[i].Error.wrapped # "nil" =>
                w.records[i].error.details = Emitted[i].Error.wrapped

\* With DumpErrors true, a body that is not valid JSON was answered with a
\* parse_error that wraps the decoder's error and carries no details.
C9_EnvelopeErrorUndumped ==
    /\ Answered /\ DumpErrors /\ body.kind = "truncated"
    /\ w.status = 400 /\ w.records[1].error.name = "parse_error"
    /\ Emitted[1].Error.wrapped # "nil"
    /\ w.records[1].error.details = "absent"

\* A response record without the details of its error.
Undetailed(r) == [r EXCEPT !.error.details = "absent"]

\* C10: from one state of the engine, the answer to a request with
\* DumpErrors false and the answer with DumpErrors true differ at most in
\* the details of their errors: the former has none, the latter has them
\* only on errors that wrap a cause.
C10_ToggleChangesOnlyDetails ==
    [][(Idle /\ ~Idle') =>
          LET off == serve(body', FALSE, sharedDump)
              on == serve(body', TRUE, sharedDump)
          IN  /\ w' = (IF DumpErrors THEN on.w ELSE off.w)
              /\ off.fault = on.fault
              /\ off.w.status = on.w.status /\ off.w.kind = on.w.kind
              /\ Len(off.w.records) = Len(on.w.records)
              /\ \A i \in 1..Len(off.w.records) :
                    /\ Undetailed(off.w.records[i]) = Undetailed(on.w.records[i])
                    /\ off.w.records[i].error.details = "absent"
                    /\ on.w.records[i].error.details # "absent" =>
                          on.responses[i].Error.wrapped # "nil"]_vars

\* DumpErrors was true for an earlier exchange and is false now, and the
\* answer to a call of Sentinel carries the cause of its error.
C10_OffRunDetailed ==
    /\ Answered /\ ~DumpErrors /\ sharedDump
    /\ body.kind = "object" /\ body.recs[1].method = "Sentinel"
    /\ w.status = 200 /\ w.records[1].error.name = "conflict"
    /\ w.records[1].error.details # "absent"

-----------------------------------------------------------------------------
(* Properties of the id of a record and of the status (checked under Spec)  *)

\* The id of element e is there and is a number or a string.
GoodID(e) == e.id.j \in {"number", "string"}

\* Record i of the answer is the error name, message and nothing else.
Failed(i, name, message) ==
    /\ i \in 1..Len(w.records)
    /\ w.records[i].result = "absent"
    /\ w.records[i].error.present
    /\ w.records[i].error.name = name /\ w.records[i].error.message = message

\* C11: one request object whose id is absent or is not a number or a string
\* (null, a boolean, an array) is answered with status 200 and one response,
\* the error invalid_request "id must be number or string", and neither a
\* layer nor the handler is run.
C11_BadIDSingle ==
    (body.kind = "object" /\ ~GoodID(body.recs[1])) =>
        /\ fault = "" /\ w.status = 200 /\ w.kind = "object"
        /\ Len(w.records) = 1
        /\ Failed(1, "invalid_request", "id must be number or string")
        /\ events = <<<<>>>>

\* One request object with an array as id made ServeHTTP panic, and nothing
\* was written.
C11_PanicOnArrayID ==
    /\ body.kind = "object" /\ body.recs[1].id.j = "array"
    /\ fault = "hash of unhashable type []interface {}"
    /\ w = NoResponse

\* The records of the body whose id is absent or not a number or a string.
BadIDs == {i \in 1..Len(body.recs) : ~body.recs[i].null /\ ~GoodID(body.recs[i])}

\* C12: in an answer with status 200, the response to a record whose id is
\* not a number or a string carries the id null, whatever the request
\* carried.
C12_BadIDAnsweredNull ==
    (Answered /\ w.status = 200) =>
        \A i \in BadIDs : w.records[i].id = JsonID("null", "")

\* A request with the id true was refused for its id, and the response
\* carries the id true.
C12_BoolIDEchoed ==
    /\ Answered /\ w.status = 200
    /\ \E i \in BadIDs :
          /\ body.recs[i].id = JsonID("bool", "true")
          /\ Failed(i, "invalid_request", "id must be number or string")
          /\ w.records[i].id = JsonID("bool", "true")

\* No two request objects of the body carry the same id, and none carries an
\* array as id.
DistinctIDs ==
    /\ body.kind \in {"object", "array"} /\ Len(body.recs) >= 1
    /\ \A i \in 1..Len(body.recs) : ~body.recs[i].null /\ body.recs[i].id.j # "array"
    /\ \A i, j \in 1..Len(body.recs) :
          (i # j /\ body.recs[i].id.j # "absent") => body.recs[i].id # body.recs[j].id

\* C13: a body of request objects, no two with the same id, is answered with
\* status 200 and one response per record, each what the record gets on its
\* own, whichever records fail (bad id, unknown method, params that do not
\* decode, an error or a panic of the pipeline) and however many do; so is a
\* batch in which two records have no id.
C13_RecordFailuresKeep200 ==
    DistinctIDs =>
        /\ fault = "" /\ w.status = 200
        /\ Len(w.records) = Len(body.recs)
        /\ \A i \in 1..Len(body.recs) : w.records[i] = Alone(body.recs[i])

\* A batch of two records without id was answered with status 400 and the
\* one error "ids must be unique".
C13_MissingIDsRejected ==
    /\ body.kind = "array" /\ Len(body.recs) = 2
    /\ \A i \in 1..2 : ~body.recs[i].null /\ body.recs[i].id.j = "absent"
    /\ Rejected("invalid_request", "ids must be unique")

\* The exchange ends at a stage that concerns the body as a whole: it cannot
\* be read, it is not the JSON of a request or of an array of requests, it is
\* an empty batch, or two of its records carry the same id.
EnvelopeFailure ==
    \/ body.kind \in {"unreadable", "truncated", "scalar"}
    \/ body.kind \in {"array", "null"} /\ Len(body.recs) = 0
    \/ DuplicateIDs

\* C14: the status is 400 exactly when the exchange ends at an envelope
\* stage, and the answer is then one error object with the id null and no
\* result; the status of every other exchange is 200.
C14_Status400IffEnvelope ==
    ~Idle =>
        IF EnvelopeFailure
        THEN /\ fault = "" /\ w.status = 400 /\ w.kind = "object"
             /\ Len(w.records) = 1
             /\ w.records[1].id = JsonID("null", "")
             /\ w.records[1].result = "absent" /\ w.records[1].error.present
        ELSE fault = "" /\ w.status = 200

\* A request whose body is read and parsed, with one record, got no status:
\* ServeHTTP panicked on its id.
C14_NoStatus ==
    /\ body.kind = "object" /\ ~EnvelopeFailure
    /\ fault # "" /\ w.status = 0

\* C15: an empty array is answered with status 400 and the one error
\* invalid_request "empty batch", the id null, and nothing is dispatched.
C15_EmptyBatch ==
    (body.kind = "array" /\ Len(body.recs) = 0) =>
        /\ Rejected("invalid_request", "empty batch")
        /\ w.records[1].error.data = "absent"
        /\ events = <<>>

\* The body [] was served and answered with status 400.
C15_Witness ==
    /\ body = Body("array", <<>>)
    /\ w.status = 400 /\ w.records[1].error.message = "empty batch"

-----------------------------------------------------------------------------
(* Properties of the response records (checked under Spec)                  *)

\* C16: every response record of an answer carries a result or an error,
\* and never both.
C16_ExactlyOneOfResultError ==
    Answered =>
        \A i \in 1..Len(w.records) :
            (w.records[i].result # "absent") # w.records[i].error.present

\* A handler returned a nil result and a nil error, and the response to its
\* record carries neither a result nor an error.
C16_NeitherResultNorError ==
    /\ Answered /\ w.status = 200
    /\ \E i \in Dispatched :
          /\ methods[body.recs[i].method].fn = "noop"
          /\ w.records[i].result = "absent" /\ ~w.records[i].error.present

\* What the pipeline of record i returned to invokeMethod.
Returned(i) ==
    LET m == methods[body.recs[i].method]
    IN  RunCall(m.call, m.fn,
                WithValue([method |-> "", request |-> "r"], "method", m.Name),
                IF m.paramsType # "nil"
                THEN UnmarshalParams(body.recs[i].params, m.paramsType).value
                ELSE "nil").out

\* C17: an *RPCError returned by the pipeline is the error of the response,
\* with its name, message and data; any other error becomes internal_error
\* "internal error" without data, which wraps the text of the original and
\* shows it, as details, only while DumpErrors is true.  Translating a
\* translated error changes nothing.
C17_ErrorsTranslated ==
    Answered =>
        \A i \in Dispatched :
            LET err == Returned(i).err
                e == w.records[i].error
            IN  (Returned(i).panic = "none" /\ err.kind # "nil") =>
                    /\ e.present /\ w.records[i].result = "absent"
                    /\ translateError(translateError(err)) = translateError(err)
                    /\ IF err.kind = "rpc"
                       THEN /\ e.name = err.Name /\ e.message = err.Message
                            /\ e.data = (IF err.data = "nil" THEN "absent" ELSE err.data)
                       ELSE /\ e.name = "internal_error" /\ e.message = "internal error"
                            /\ e.data = "absent"
                            /\ Emitted[i].Error.wrapped = ErrorText(err)
                            /\ e.details = (IF DumpErrors THEN ErrorText(err) ELSE "absent")

\* A batch was answered in which a layer returned an error that is not an
\* *RPCError and a handler returned an *RPCError with data.
C17_Witness ==
    /\ Answered /\ ~DumpErrors /\ Len(body.recs) = 2 /\ Dispatched = {1, 2}
    /\ body.recs[1].method = "Denied" /\ Returned(1).err = PlainError("access denied")
    /\ w.records[1].error.name = "internal_error"
    /\ body.recs[2].method = "ReturnErrorWithData"
    /\ w.records[2].error.data = "name: must be present"

-----------------------------------------------------------------------------
(* Properties of the dispatch (checked under Spec)                          *)

\* C18: every layer and the handler of the pipeline of a record are handed
\* a context that yields the method name of that record and the HTTP request
\* of the exchange.
C18_ContextPerRecord ==
    \A i \in 1..Len(events) : \A k \in 1..Len(events[i]) :
        /\ events[i][k].method = body.recs[i].method
        /\ events[i][k].request = "r"

\* A batch calling two different methods was served, and the handlers of
\* both were run, the first behind a layer.
C18_Witness ==
    /\ Len(events) = 2
    /\ body.recs[1].method = "Now" /\ body.recs[2].method = "Upper"
    /\ Len(events[1]) = 3 /\ events[1][2].ev = "fn" /\ events[1][2].method = "Now"
    /\ Len(events[2]) = 3 /\ events[2][2].ev = "fn" /\ events[2][2].method = "Upper"

\* C19: a record with a number or a string as id that names a method not in
\* the registry is answered, in an answer with status 200, under its own id
\* with the error method_not_found "method not found: <name>", and no layer
\* and no handler is run for it.
C19_MethodNotFound ==
    Answered =>
        \A i \in 1..Len(events) :
            (GoodID(body.recs[i]) /\ body.recs[i].method \notin Registered) =>
                /\ w.status = 200
                /\ w.records[i].id = body.recs[i].id
                /\ Failed(i, "method_not_found",
                          "method not found: " \o body.recs[i].method)
                /\ w.records[i].error.data = "absent"
                /\ events[i] = <<>>

\* A batch was answered whose first record names an unknown method and whose
\* second record was dispatched through the middleware of the root.
C19_Witness ==
    /\ Answered /\ Len(body.recs) = 2
    /\ body.recs[1].method = "Invalid" /\ GoodID(body.recs[1])
    /\ w.records[1].error.message = "method not found: Invalid"
    /\ events[1] = <<>> /\ events[2] # <<>>

-----------------------------------------------------------------------------
(* Properties of the scope of a layer (checked under SpecBuild)             *)

\* How many times layer x was entered in the events es.
Runs(es, x) == Cardinality({k \in 1..Len(es) : es[k].ev = "call" /\ es[k].layer = x})

-----------------------------------------------------------------------------
(* Properties of the shape of the answer and of the stages of a record      *)
(* (checked under Spec)                                                     *)

\* C21: the answer to a body with exactly one request record, sent as an
\* object or as an array of one element, is one bare object.
C21_OneRecordBareObject ==
    (Answered /\ Len(body.recs) = 1 /\ ~body.recs[1].null) =>
        /\ w.kind = "object" /\ Len(w.records) = 1
        /\ w.records[1] = Alone(body.recs[1])

\* An array of one request record was answered with status 200.
C21_Witness ==
    /\ Answered /\ body.kind = "array" /\ Len(body.recs) = 1
    /\ w.status = 200 /\ w.kind = "object"
    /\ w.records[1].id = body.recs[1].id /\ w.records[1].result # "absent"

\* The stage at which the processing of record i ends: the validation of
\* its id, the lookup of its method, the decoding of its params, or the call
\* of the pipeline.
Stage(i) ==
    LET e == body.recs[i]
    IN  IF ~GoodID(e) THEN "id"
        ELSE IF e.method \notin Registered THEN "lookup"
        ELSE IF /\ methods[e.method].paramsType # "nil"
                /\ UnmarshalParams(e.params, methods[e.method].paramsType).err # NoFault
        THEN "params"
        ELSE "call"

\* C22: the first stage that fails decides the error of a record: a bad id
\* gives invalid_request whatever the method, an unknown method gives
\* method_not_found whatever the params, params that do not decode give
\* parse_error, and the pipeline is run, with the method name in its context,
\* exactly when none of the three failed.
C22_StageOrder ==
    (Answered /\ w.status = 200) =>
        \A i \in 1..Len(body.recs) :
            /\ Stage(i) = "id" =>
                  Failed(i, "invalid_request", "id must be number or string")
            /\ Stage(i) = "lookup" =>
                  Failed(i, "method_not_found", "method not found: " \o body.recs[i].method)
            /\ Stage(i) = "params" =>
                  w.records[i].error.present /\ w.records[i].error.name = "parse_error"
            /\ Stage(i) # "call" <=> events[i] = <<>>
            /\ Stage(i) = "call" => events[i][1].method = body.recs[i].method

\* A batch was answered whose first record has a bad id and an unknown
\* method, and whose second record has an unknown method and no params.
C22_Witness ==
    /\ Answered /\ Len(body.recs) = 2
    /\ body.recs[1].method = "Invalid" /\ body.recs[1].id = JsonID("bool", "true")
    /\ w.records[1].error.name = "invalid_request"
    /\ body.recs[2].method = "Invalid" /\ GoodID(body.recs[2])
    /\ body.recs[2].params = "absent"
    /\ w.records[2].error.name = "method_not_found"

\* C23: for a method with a params type, a record whose params do not decode
\* into it, absent params included, is answered under its own id, in an
\* answer with status 200, with parse_error "cannot parse params: <fault>",
\* and the pipeline is not run; for a method without a params type, the
\* pipeline is run and the record is answered as it is without params.
C23_ParamsDecoding ==
    (Answered /\ w.status = 200) =>
        \A i \in 1..Len(body.recs) :
            LET e == body.recs[i]
            IN  (GoodID(e) /\ e.method \in Registered) =>
                    IF methods[e.method].paramsType # "nil"
                    THEN e.params # "hello" =>
                            /\ w.records[i].id = e.id
                            /\ Failed(i, "parse_error",
                                  "cannot parse params: " \o
                                     (IF e.params = "absent"
                                      THEN "offset 0: unexpected end of JSON input"
                                      ELSE "offset 1: cannot unmarshal number as string"))
                            /\ events[i] = <<>>
                    ELSE /\ events[i] # <<>>
                         /\ w.records[i] = Alone([e EXCEPT !.params = "absent"])

\* A batch was answered in which a number was sent to a method that takes a
\* string and to a method that takes no params.
C23_Witness ==
    /\ Answered /\ Len(body.recs) = 2
    /\ body.recs[1].method = "Upper" /\ body.recs[1].params = "1"
    /\ w.records[1].error.name = "parse_error" /\ events[1] = <<>>
    /\ body.recs[2].method = "Do" /\ body.recs[2].params = "1"
    /\ events[2] # <<>>

-----------------------------------------------------------------------------
(* Properties of the build-time state                                       *)

\* C24 (checked under SpecBuild): in every state, the pipeline of each
\* registered method is the chain built from the present middleware lists of
\* the group it was registered through and of the ancestors of that group.
C24_MiddlewareFrozen ==
    \A n \in Registered :
        /\ methods[n].call = ApplyMiddleware(<<>>, owner[n])
        /\ \A g \in {owner[n]} \cup Ancestors(owner[n]) : \A x \in LayerIds(g) :
              \E k \in 1..Len(methods[n].call) : methods[n].call[k].id = x

\* A method is registered through a subgroup behind a layer of the root and
\* a layer of the subgroup, and a Use that came after it panicked.
C24_Witness ==
    /\ lastOp.op = "Use" /\ lastOp.panic = UsePanic
    /\ \E n \in Registered :
          /\ owner[n] # 1 /\ Len(methods[n].call) = 2
          /\ middleware[1] # <<>> /\ middleware[owner[n]] # <<>>

-----------------------------------------------------------------------------
(* Properties of a layer that does not call next (checked under            *)
(* SpecPipeline)                                                            *)

\* The layers of pipeline c that return a value of their own.
Stops(c) == {k \in 1..Len(c) : c[k].kind \in {"short", "error", "reply"}}

\* C26: when the outermost layer of a pipeline that does not call next is
\* reached, neither the layers inside it nor the handler are run, every
\* layer outside it sees what it returned, and that is the result or the
\* error of the record.
C26_ShortCircuit ==
    \A i \in Dispatched :
        LET c == methods[body.recs[i].method].call
            es == events[i]
        IN  \A k \in Stops(c) :
                (\A j \in 1..(k - 1) : c[j].kind = "next") =>
                    LET v == LayerOut(c[k].kind)
                    IN  /\ Runs(es, c[k].id) = 1
                        /\ \A j \in (k + 1)..Len(c) : Runs(es, c[j].id) = 0
                        /\ Pos(es, "fn", 0) = 0
                        /\ \A j \in 1..(k - 1) :
                              /\ Pos(es, "ret", c[j].id) > Pos(es, "ret", c[k].id)
                              /\ es[Pos(es, "ret", c[j].id)].result = v.result
                              /\ es[Pos(es, "ret", c[j].id)].err = v.err
                        /\ w.records[i].result =
                              (IF v.result = "nil" THEN "absent" ELSE v.result)
                        /\ IF v.err.kind = "nil" THEN ~w.records[i].error.present
                           ELSE /\ w.records[i].error.present
                                /\ w.records[i].error.name = translateError(v.err).Name

\* A method was called behind a layer that calls next and, inside it, a
\* layer that returns a result of its own, which is the result of the record.
C26_Witness ==
    \E i \in Dispatched :
        LET c == methods[body.recs[i].method].call
        IN  /\ Len(c) = 2 /\ c[1].kind = "next" /\ c[2].kind = "reply"
            /\ methods[body.recs[i].method].fn = "now"
            /\ w.records[i].result = "cached"
            /\ Len(events[i]) = 4

-----------------------------------------------------------------------------
(* Properties of the exchange as a whole (checked under Spec)               *)

\* C27: in an exchange that ends with an envelope failure (status 400), no
\* layer and no handler is run for any record of the body.
C27_NoDispatchOnEnvelopeFailure ==
    (~Idle /\ (w.status = 400 \/ EnvelopeFailure)) =>
        \A i \in 1..Len(events) : events[i] = <<>>

\* A batch of two calls of a registered method with the same id was answered
\* with status 400, and nothing was run for the first.
C27_Witness ==
    /\ body.kind = "array" /\ Len(body.recs) = 2
    /\ body.recs[1] = body.recs[2]
    /\ body.recs[1].method = "Now" /\ body.recs[1].id = JsonID("number", "1")
    /\ Rejected("invalid_request", "ids must be unique")
    /\ \A i \in 1..Len(events) : events[i] = <<>>

\* C28: whatever the body, ServeHTTP returns having written one status, 200
\* or 400, and one body; no panic escapes it.
C28_AlwaysAnswered ==
    ~Idle =>
        /\ fault = ""
        /\ w.status \in {200, 400}
        /\ w.kind \in {"object", "array"}

\* The body [null] made ServeHTTP panic on a nil request, and nothing was
\* written.
C28_NullElementPanics ==
    /\ body.kind = "array" /\ Len(body.recs) = 1 /\ body.recs[1].null
    /\ fault = "invalid memory address or nil pointer dereference"
    /\ w = NoResponse

-----------------------------------------------------------------------------
(* Properties of a Register that panics (checked under SpecBuild)           *)

\* C29: a Register that panics leaves the registry as it was, so that a Use
\* is accepted after it exactly when it was before.
C29_RegisterAllOrNothing ==
    [][(StepOf("Register") /\ lastOp'.panic # "") =>
          /\ UNCHANGED <<methods, owner>>
          /\ (Registered' = {}) = (Registered = {})]_vars

\* A Register of two methods panicked on the signature of one of them while
\* the other, given in the same call, is in the registry of an engine with
\* no other group.
C29_PartlyRegistered ==
    /\ lastOp.op = "Register" /\ lastOp.name \notin Registered
    /\ lastOp.panic # "" /\ lastOp.panic = resolvePanic("badsig")
    /\ Registered # {} /\ Groups = {1}

-----------------------------------------------------------------------------
(* Properties of jsonErrorDetails (checked under SpecDetails)               *)

\* The type a decode fault was decoded into, its pointers taken off.
Pointee == [decodeErr.Type EXCEPT !.Ptr = 0]

\* The name the type decoded into is reported under, "" when it has none.
ExpectedType ==
    LET t == Pointee
        Unnamed(kinds) == t.PkgPath = "" /\ t.Kind \in kinds
    IN  CASE Unnamed({"Bool"}) -> "boolean"
          [] Unnamed({"Int", "Int8", "Int16", "Int32", "Int64",
                      "Uint", "Uint8", "Uint16", "Uint32", "Uint64"}) -> "integer"
          [] Unnamed({"Float32", "Float64", "Complex64", "Complex128"}) -> "number"
          [] Unnamed({"String"}) -> "string"
          [] t.PkgPath = "time" /\ t.Name = "Time" -> "time"
          [] t.PkgPath = "time" /\ t.Name = "Duration" -> "duration"
          [] t.Kind \in {"Struct", "Map"} -> "object"
          [] t.Kind \in {"Array", "Slice"} -> "array"
          [] OTHER -> ""

\* C30: jsonErrorDetails returns "offset N: <cause>" for a syntax fault; for a
\* type-mismatch fault "offset N: cannot unmarshal <observed type>", then
\* " to "<field>"" only when the field is known, then " as <expected type>"
\* only when the type decoded into, its pointers taken off, has a name
\* (boolean, integer, number, string for the unnamed primitives; time and
\* duration; object for structs and maps; array for arrays and slices; none
\* for anything else, a defined integer type included); and "" for any other
\* fault.
C30_Details ==
    reported # <<>> =>
        reported[1] =
            CASE decodeErr.type = "SyntaxError" ->
                    "offset " \o ToString(decodeErr.Offset) \o ": " \o decodeErr.text
              [] decodeErr.type = "UnmarshalTypeError" ->
                    "offset " \o ToString(decodeErr.Offset) \o ": cannot unmarshal "
                    \o decodeErr.Value
                    \o (IF decodeErr.Field = "" THEN ""
                        ELSE " to \"" \o decodeErr.Field \o "\"")
                    \o (IF ExpectedType = "" THEN "" ELSE " as " \o ExpectedType)
              [] OTHER -> ""

\* A string found where a field of a pointer to a defined integer type was
\* decoded was reported with its field and without a type.
C30_Witness ==
    /\ decodeErr = UnmarshalTypeError(1, "string", "nested.count",
                                      GoType("Int", "main", "Enum", 1))
    /\ reported = <<"offset 1: cannot unmarshal string to \"nested.count\"">>

====
